---- MODULE Spec2Model ----
(***************************************************************************)
(* Model of the _changes client of the couchdb package (changes.go):       *)
(* Changes.Stream, the reader goroutine readStream, Changes.Poll, the      *)
(* CouchDB server writing the continuous feed, and the consumer of the     *)
(* channel Stream returns.                                                 *)
(*                                                                         *)
(* The response body is a sequence of tokens.  "NL" is the byte '\n',      *)
(* "SP" is any other white space byte, and every other token is the text   *)
(* of one JSON fragment:                                                   *)
(*   "Ev1"     {"seq":"1","id":"a","changes":[]}                           *)
(*   "Ev2"     {"seq":"2","id":"b","changes":[]}                           *)
(*   "NoSeq"   {"id":"x"} or {"seq":"","id":"x"}                           *)
(*   "TypeErr" {"seq":"3","id":7}      (well formed, wrong field type)     *)
(*   "Bad"     {"seq":"2",              (not well formed)                  *)
(***************************************************************************)
EXTENDS Naturals, Sequences, FiniteSets

VARIABLES
    callerFeed,   \* Feed of the ChangesQueryParameters value the caller holds
    op,           \* the method the caller called: "none", "Stream", "Poll"
    cpc,          \* the caller: "idle", "returned", "panic"
    encErr,       \* err of query.Values(params): "none", "nil", "err"
    reqs,         \* feed parameter of every request handed to Client.Request
    reqErr,       \* err of the last Client.Request: "none", "nil", "err"
    res,          \* the *http.Response obtained: "none", "nil", "ok"
    retVal,       \* first result of the call: "none", "nil", "chan", "resp"
    retErr,       \* second result of the call: "none", "nil", "err"
    chanMade,     \* make(chan Change) was executed
    body,         \* tokens the server has written to the response body
    srvEnd,       \* the server side of the body: "none", "open", "eof", "err"
    rpos,         \* tokens of body the bufio.Reader has handed to readStream
    rpc,          \* readStream: "none", "start", "read", "send", "exit", "done", "panic"
    defers,       \* readStream's stack of deferred calls
    pending,      \* the Change readStream is blocked sending (<<>> or <<c>>)
    chanBuf,      \* Changes buffered in the channel
    chanCloses,   \* close(results) calls executed
    bodyCloses,   \* Close() calls executed on the body of the Stream response
    received,     \* the Changes the consumer has received, in order
    sawClosed,    \* the consumer has received from the closed channel
    pollClosed    \* Poll's deferred r.Body.Close() was executed

vars == <<callerFeed, op, cpc, encErr, reqs, reqErr, res, retVal, retErr, chanMade,
          body, srvEnd, rpos, rpc, defers, pending, chanBuf, chanCloses,
          bodyCloses, received, sawClosed, pollClosed>>

callVars == <<callerFeed, op, cpc, encErr, reqs, reqErr, res, retVal, retErr, chanMade, pollClosed>>
readerVars == <<rpos, rpc, defers, pending, chanBuf, chanCloses, bodyCloses>>
consumerVars == <<received, sawClosed>>
serverVars == <<body, srvEnd>>

\* Most tokens the server writes to one response body.
MaxBody == 4

\* Mutant: a buffered channel, make(chan Change, 1).
ChanCapOne == 0 + 1

\* Capacity of the channel: make(chan Change) is unbuffered.
ChanCap == 0

Feeds == {"unset", "continuous", "longpoll"}

Space == {"NL", "SP"}
Tokens == {"NL", "SP", "Ev1", "Ev2", "NoSeq", "TypeErr", "Bad"}

\* The zero value of Change (var result Change), Changes left out.
ZeroChange == [seq |-> "", id |-> ""]

----
\* Pure functions of readStream.

RECURSIVE IndexNL(_, _)
\* Index of the first "NL" of s at or after i; 0 when there is none.
IndexNL(s, i) ==
    IF i > Len(s) THEN 0
    ELSE IF s[i] = "NL" THEN i
    ELSE IndexNL(s, i + 1)

\* Mutant: a read that keeps waiting for a '\n' after the stream has ended.
CanReadNoEnd(unread, ended) == IndexNL(unread, 1) > 0

\* reader.ReadBytes('\n') on the unread tokens: the line up to and including
\* the first '\n' with a nil error, or what is left with the stream's error
\* when the stream ends before a '\n'.  Not enabled (the read blocks) while
\* neither is the case.
CanRead(unread, ended) == IndexNL(unread, 1) > 0 \/ ended

ReadBytes(unread) ==
    LET n == IndexNL(unread, 1)
    IN  IF n > 0
        THEN [line |-> SubSeq(unread, 1, n), err |-> "nil"]
        ELSE [line |-> unread, err |-> "err"]

\* The err of a ReadBytes that found no '\n': io.EOF when the server closed
\* the stream, the error of the connection otherwise.
ReadErr(kind) == IF kind = "eof" THEN "EOF" ELSE "error"

\* Mutant: for ...; err != io.EOF; ...
LoopCondUntilEOF(err) == err # "EOF"

\* for ...; err == nil; ...
LoopCond(err) == err = "nil"

RECURSIVE TrimLeft(_)
TrimLeft(s) ==
    IF s # <<>> /\ Head(s) \in Space THEN TrimLeft(Tail(s)) ELSE s

RECURSIVE TrimRight(_)
TrimRight(s) ==
    IF s # <<>> /\ s[Len(s)] \in Space
    THEN TrimRight(SubSeq(s, 1, Len(s) - 1))
    ELSE s

\* bytes.TrimSpace
TrimSpace(line) == TrimRight(TrimLeft(line))

\* The JSON values of a text: white space between values is insignificant.
Values(line) == SelectSeq(line, LAMBDA t : t \notin Space)

\* json.Unmarshal(line, &result) with result the zero Change.  A text that is
\* not exactly one well-formed value is a syntax error and leaves result
\* untouched; a well-formed object with a field of the wrong type fills the
\* other fields and returns an UnmarshalTypeError.
Unmarshal(line) ==
    LET v == Values(line)
    IN  IF Len(v) # 1 \/ v[1] = "Bad" THEN [err |-> "err", result |-> ZeroChange]
        ELSE IF v[1] = "Ev1" THEN [err |-> "nil", result |-> [seq |-> "1", id |-> "a"]]
        ELSE IF v[1] = "Ev2" THEN [err |-> "nil", result |-> [seq |-> "2", id |-> "b"]]
        ELSE IF v[1] = "NoSeq" THEN [err |-> "nil", result |-> [seq |-> "", id |-> "x"]]
        ELSE [err |-> "err", result |-> [seq |-> "3", id |-> ""]]

\* len(line) <= 0 after the trim: continue
IsBlank(line) == Len(line) <= 0

\* Mutant: result.Seq != "" without the test of err.
ShouldSendNoErrCheck(d) == d.result.seq # ""

\* Mutant: err == nil without the test of result.Seq.
ShouldSendNoSeqCheck(d) == d.err = "nil"

\* err == nil && result.Seq != ""
ShouldSend(d) == d.err = "nil" /\ d.result.seq # ""

\* Mutant: return when json.Unmarshal fails.
LoopBodyReturnOnDecodeErr(rawLine) ==
    LET line == TrimSpace(rawLine)
    IN  IF IsBlank(line) THEN [out |-> <<>>, exit |-> FALSE]
        ELSE LET d == Unmarshal(line)
             IN  IF ShouldSend(d)
                 THEN [out |-> <<d.result>>, exit |-> FALSE]
                 ELSE [out |-> <<>>, exit |-> d.err # "nil"]

\* Mutant: return on a Change with an empty Seq.
LoopBodyReturnOnEmptySeq(rawLine) ==
    LET line == TrimSpace(rawLine)
    IN  IF IsBlank(line) THEN [out |-> <<>>, exit |-> FALSE]
        ELSE LET d == Unmarshal(line)
             IN  IF ShouldSend(d)
                 THEN [out |-> <<d.result>>, exit |-> FALSE]
                 ELSE [out |-> <<>>, exit |-> d.err = "nil"]

\* Mutant: break instead of continue on an empty line.
LoopBodyBreakOnBlank(rawLine) ==
    LET line == TrimSpace(rawLine)
    IN  IF IsBlank(line) THEN [out |-> <<>>, exit |-> TRUE]
        ELSE LET d == Unmarshal(line)
             IN  IF ShouldSend(d)
                 THEN [out |-> <<d.result>>, exit |-> FALSE]
                 ELSE [out |-> <<>>, exit |-> FALSE]

\* One pass of the loop body on a line read without error.  out is <<>> when
\* nothing is sent and <<result>> when result is sent on the channel; exit
\* tells whether the pass leaves the loop (the body holds no break or return:
\* continue and the end of the body both go on to the next ReadBytes).
LoopBody(rawLine) ==
    LET line == TrimSpace(rawLine)
    IN  IF IsBlank(line) THEN [out |-> <<>>, exit |-> FALSE]
        ELSE LET d == Unmarshal(line)
             IN  IF ShouldSend(d)
                 THEN [out |-> <<d.result>>, exit |-> FALSE]
                 ELSE [out |-> <<>>, exit |-> FALSE]

\* Mutant: a send that gives up when no receiver is ready
\* (select { case results <- result: default: }).
SendNonBlocking == FALSE

\* results <- result waits until the Change is taken.
SendBlocks == TRUE

\* Mutant: the two defer statements in the other order.
DeferRegisteredSwapped == <<"chan", "body">>

\* Mutant: a second close(results) beside the deferred one.
DeferRegisteredCloseTwice == <<"body", "chan", "chan">>

\* Mutant: no defer r.Body.Close().
DeferRegisteredNoBody == <<"chan">>

\* The deferred calls of readStream in the order the defer statements run.
DeferRegistered == <<"body", "chan">>

\* The deferred call that runs next when readStream returns: the last one
\* registered.
NextDeferred(stack) == stack[Len(stack)]

----
\* Changes.Stream and Changes.Poll.

\* Client.Request: the response and the error it returns.
Request(ok) ==
    IF ok THEN [res |-> "ok", err |-> "nil"] ELSE [res |-> "nil", err |-> "err"]

\* Mutant: continuous only when the caller set no feed.
StreamFeedKeep(feed) == IF feed = "unset" THEN "continuous" ELSE feed

\* params.Feed = &continuous
StreamFeed(feed) == "continuous"

\* Mutant: the caller's feed is passed on as it is.
PollFeedKeep(feed) == feed

\* if params.Feed != nil && *(params.Feed) == "continuous" { params.Feed = nil }
PollFeed(feed) == IF feed # "unset" /\ feed = "continuous" THEN "unset" ELSE feed

\* Mutant: params is shared with the caller (a pointer parameter), so the
\* assignment to params.Feed reaches the caller's value.
ByReference(feed, assigned) == assigned

\* params ChangesQueryParameters is passed by value: the caller's Feed after
\* the callee has assigned to the Feed of its copy.
ByValue(feed, assigned) == feed

\* q, err := query.Values(params): the err it returns.
QueryValues(ok) == IF ok THEN "nil" ELSE "err"

\* Mutant: the err of query.Values is not tested.
ReturnsOnEncodeErrNever(err) == FALSE

\* if err != nil { return nil, err }
ReturnsOnEncodeErr(err) == err # "nil"

\* Mutant: the request is made again when the first one is over.
StreamRequestsTwice(feed) == <<feed, feed>>

\* The calls of Client.Request that Stream makes: one, with the encoded
\* parameters.
StreamRequests(feed) == <<feed>>

\* Mutant: Stream closes the body it has handed to readStream
\* (defer res.Body.Close()).
StreamDefersBodyClose == TRUE

\* Stream does nothing with res but pass it to readStream.
StreamClosesBody == FALSE

\* What Stream returns once the request has been made.
StreamReturn(r) == [val |-> "chan", err |-> "nil"]

\* A panic in any goroutine ends the program.
Crashed == cpc = "panic" \/ rpc = "panic"

Init ==
    /\ callerFeed \in Feeds
    /\ op = "none"
    /\ cpc = "idle"
    /\ encErr = "none"
    /\ reqs = <<>>
    /\ reqErr = "none"
    /\ res = "none"
    /\ retVal = "none"
    /\ retErr = "none"
    /\ chanMade = FALSE
    /\ body = <<>>
    /\ srvEnd = "none"
    /\ rpos = 0
    /\ rpc = "none"
    /\ defers = <<>>
    /\ pending = <<>>
    /\ chanBuf = <<>>
    /\ chanCloses = 0
    /\ bodyCloses = 0
    /\ received = <<>>
    /\ sawClosed = FALSE
    /\ pollClosed = FALSE

\* c.Stream(params): encOk is whether query.Values succeeds, reqOk whether
\* Client.Request does.
Stream(encOk, reqOk) ==
    /\ cpc = "idle"
    /\ op' = "Stream"
    /\ cpc' = "returned"
    /\ callerFeed' = ByValue(callerFeed, StreamFeed(callerFeed))
    /\ encErr' = QueryValues(encOk)
    /\ IF ReturnsOnEncodeErr(QueryValues(encOk))
       THEN /\ retVal' = "nil"
            /\ retErr' = "err"
            /\ UNCHANGED <<reqs, reqErr, res, chanMade, srvEnd, rpc, bodyCloses>>
       ELSE LET r == Request(reqOk)
                ret == StreamReturn(r)
            IN  /\ reqs' = reqs \o StreamRequests(StreamFeed(callerFeed))
                /\ res' = r.res
                /\ reqErr' = r.err
                /\ srvEnd' = IF r.res = "ok" THEN "open" ELSE "none"
                /\ chanMade' = (ret.val = "chan")
                /\ rpc' = IF ret.val = "chan" THEN "start" ELSE "none"
                /\ retVal' = ret.val
                /\ retErr' = ret.err
                /\ bodyCloses' = IF StreamClosesBody /\ r.res = "ok"
                                  THEN bodyCloses + 1
                                  ELSE bodyCloses
    /\ UNCHANGED <<body, rpos, defers, pending, chanBuf, chanCloses,
                   received, sawClosed, pollClosed>>

\* c.Poll(params): decOk is whether the response body decodes.
Poll(encOk, reqOk, decOk) ==
    /\ cpc = "idle"
    /\ op' = "Poll"
    /\ callerFeed' = ByValue(callerFeed, PollFeed(callerFeed))
    /\ encErr' = QueryValues(encOk)
    /\ IF ReturnsOnEncodeErr(QueryValues(encOk))
       THEN /\ cpc' = "returned"
            /\ retVal' = "nil"
            /\ retErr' = "err"
            /\ UNCHANGED <<reqs, reqErr, res, pollClosed>>
       ELSE LET r == Request(reqOk)
            IN  /\ reqs' = Append(reqs, PollFeed(callerFeed))
                /\ res' = r.res
                /\ reqErr' = r.err
                /\ IF r.res = "nil"
                   THEN \* defer r.Body.Close() evaluates r.Body of a nil r
                        /\ cpc' = "panic"
                        /\ UNCHANGED <<retVal, retErr, pollClosed>>
                   ELSE /\ cpc' = "returned"
                        /\ retVal' = "resp"
                        /\ retErr' = IF decOk THEN "nil" ELSE "err"
                        /\ pollClosed' = TRUE
    /\ UNCHANGED <<chanMade, serverVars, readerVars, consumerVars>>

----
\* readStream.

Unread == SubSeq(body, rpos + 1, Len(body))

\* defer r.Body.Close(); defer close(results); bufio.NewReader(r.Body)
ReaderStart ==
    /\ rpc = "start"
    /\ ~Crashed
    /\ IF res = "nil"
       THEN rpc' = "panic" /\ UNCHANGED defers
       ELSE rpc' = "read" /\ defers' = DeferRegistered
    /\ UNCHANGED <<callVars, serverVars, consumerVars, rpos, pending, chanBuf,
                   chanCloses, bodyCloses>>

\* line, err = reader.ReadBytes('\n'); the test err == nil; the loop body up
\* to the send.
ReaderRead ==
    /\ rpc = "read"
    /\ ~Crashed
    /\ CanRead(Unread, srvEnd \in {"eof", "err"})
    /\ LET rd == ReadBytes(Unread)
           err == IF rd.err = "nil" THEN "nil" ELSE ReadErr(srvEnd)
           b == LoopBody(rd.line)
       IN  /\ rpos' = rpos + Len(rd.line)
           /\ IF ~LoopCond(err) \/ b.exit
              THEN rpc' = "exit" /\ UNCHANGED <<pending, chanBuf>>
              ELSE IF b.out = <<>>
              THEN rpc' = "read" /\ UNCHANGED <<pending, chanBuf>>
              ELSE IF Len(chanBuf) < ChanCap
              THEN /\ chanBuf' = Append(chanBuf, b.out[1])
                   /\ rpc' = "read"
                   /\ UNCHANGED pending
              ELSE IF SendBlocks
              THEN /\ pending' = b.out
                   /\ rpc' = "send"
                   /\ UNCHANGED chanBuf
              ELSE rpc' = "read" /\ UNCHANGED <<pending, chanBuf>>
    /\ UNCHANGED <<callVars, serverVars, consumerVars, defers, chanCloses, bodyCloses>>

\* readStream returns: the deferred calls run, last registered first.
ReaderRunDeferred ==
    /\ rpc = "exit"
    /\ ~Crashed
    /\ defers # <<>>
    /\ LET d == NextDeferred(defers)
       IN  /\ chanCloses' = IF d = "chan" THEN chanCloses + 1 ELSE chanCloses
           /\ bodyCloses' = IF d = "body" THEN bodyCloses + 1 ELSE bodyCloses
    /\ defers' = SubSeq(defers, 1, Len(defers) - 1)
    /\ rpc' = IF Len(defers) = 1 THEN "done" ELSE "exit"
    /\ UNCHANGED <<callVars, serverVars, consumerVars, rpos, pending, chanBuf>>

----
\* The consumer of the channel Stream returned.

\* c, ok := <-results with ok true: the oldest buffered Change, or with an
\* empty buffer the Change of the blocked sender, whose send then completes.
ConsumerRecv ==
    /\ retVal = "chan"
    /\ ~Crashed
    /\ IF chanBuf # <<>>
       THEN /\ received' = Append(received, Head(chanBuf))
            /\ IF rpc = "send"
               THEN /\ chanBuf' = Append(Tail(chanBuf), pending[1])
                    /\ pending' = <<>>
                    /\ rpc' = "read"
               ELSE /\ chanBuf' = Tail(chanBuf)
                    /\ UNCHANGED <<pending, rpc>>
       ELSE /\ rpc = "send"
            /\ received' = Append(received, pending[1])
            /\ pending' = <<>>
            /\ rpc' = "read"
            /\ UNCHANGED chanBuf
    /\ UNCHANGED <<callVars, serverVars, sawClosed, rpos, defers, chanCloses, bodyCloses>>

\* <-results with ok false: the channel is closed and drained.
ConsumerSeeClosed ==
    /\ retVal = "chan"
    /\ ~Crashed
    /\ chanCloses > 0
    /\ chanBuf = <<>>
    /\ ~sawClosed
    /\ sawClosed' = TRUE
    /\ UNCHANGED <<callVars, serverVars, readerVars, received>>

----
\* The server end of the response body of a Stream request.

ServerWrite(t) ==
    /\ srvEnd = "open"
    /\ Len(body) < MaxBody
    /\ body' = Append(body, t)
    /\ UNCHANGED <<callVars, readerVars, consumerVars, srvEnd>>

\* The stream ends: the server closes the connection ("eof") or the
\* connection fails ("err").
ServerEnd(k) ==
    /\ srvEnd = "open"
    /\ srvEnd' = k
    /\ UNCHANGED <<callVars, readerVars, consumerVars, body>>

Next ==
    \/ \E encOk \in BOOLEAN, reqOk \in BOOLEAN : Stream(encOk, reqOk)
    \/ \E encOk \in BOOLEAN, reqOk \in BOOLEAN, decOk \in BOOLEAN : Poll(encOk, reqOk, decOk)
    \/ ReaderStart
    \/ ReaderRead
    \/ ReaderRunDeferred
    \/ ConsumerRecv
    \/ ConsumerSeeClosed
    \/ \E t \in Tokens : ServerWrite(t)
    \/ \E k \in {"eof", "err"} : ServerEnd(k)

Spec == Init /\ [][Next]_vars

\* Stream sets the feed itself and readStream never sees the parameters, so
\* the behaviours with fairness start from one value of the caller's feed.
FairInit == Init /\ callerFeed = "unset"

\* Every step is taken if it stays possible: the Go scheduler runs the reader
\* goroutine, and the consumer keeps receiving.
FairSpec ==
    /\ FairInit
    /\ [][Next]_vars
    /\ WF_vars(ReaderStart)
    /\ WF_vars(ReaderRead)
    /\ WF_vars(ReaderRunDeferred)
    /\ WF_vars(ConsumerRecv)

----
\* Vocabulary of the properties.

IsPrefix(s, t) == Len(s) <= Len(t) /\ SubSeq(t, 1, Len(s)) = s

RECURSIVE Lines(_)
\* The newline-terminated lines of b, in stream order.
Lines(b) ==
    LET n == IndexNL(b, 1)
    IN  IF n = 0 THEN <<>>
        ELSE <<SubSeq(b, 1, n)>> \o Lines(SubSeq(b, n + 1, Len(b)))

\* The line decodes as JSON with a non-empty seq.
Deliverable(line) == Unmarshal(line).err = "nil" /\ Unmarshal(line).result.seq # ""

RECURSIVE EventsOf(_)
EventsOf(ls) ==
    IF ls = <<>> THEN <<>>
    ELSE (IF Deliverable(Head(ls)) THEN <<Unmarshal(Head(ls)).result>> ELSE <<>>)
         \o EventsOf(Tail(ls))

\* The events of the newline-terminated lines of b that decode as JSON with a
\* non-empty seq, in stream order.
ExpectedEvents(b) == EventsOf(Lines(b))

Consumed == SubSeq(body, 1, rpos)

\* A read of the body has returned end-of-stream or an error.
ReadFailed == srvEnd \in {"eof", "err"} /\ rpos = Len(body) /\ rpc \in {"exit", "done"}

\* This step is a ReadBytes of readStream that returned a line and no error.
ReadsLine == rpc = "read" /\ rpos' > rpos /\ ReadBytes(Unread).err = "nil"

LineRead == ReadBytes(Unread).line

----
\* C1: in every state the events the consumer has received are a prefix of
\* the events of the newline-terminated lines of the body that decode as JSON
\* with a non-empty seq, in stream order.
C1_ReceivedIsPrefix == IsPrefix(received, ExpectedEvents(body))

C1_Witness ==
    /\ body = <<"Ev2", "NL", "Ev1", "NL">>
    /\ Len(received) = 2

\* C2 as stated: the body is closed before the channel, so the channel is
\* never closed, and never seen closed by the consumer, with the body still
\* unreleased.
C2_BodyClosedFirst ==
    /\ chanCloses > 0 => bodyCloses > 0
    /\ sawClosed => bodyCloses > 0

\* C2 amended: the channel is closed first and the body second: the body is
\* never released while the channel is still open, and once readStream has
\* returned both are closed.
C2_ChanClosedFirst ==
    /\ bodyCloses > 0 => chanCloses > 0
    /\ rpc = "done" => (chanCloses > 0 /\ bodyCloses > 0)

C2_Witness == sawClosed /\ chanCloses = 1 /\ bodyCloses = 0 /\ rpc = "exit"

\* C3: when the request of Stream fails, Stream returns a non-nil error,
\* makes no channel and starts no reader.
C3_StreamRequestFailure ==
    (op = "Stream" /\ reqErr = "err") =>
        (retErr = "err" /\ retVal = "nil" /\ ~chanMade /\ rpc = "none")

\* C4: the channel and the body are each closed at most once, neither before
\* a read of the body has failed, and both exactly once when readStream has
\* returned, however many events were delivered.
C4_ClosedOnce ==
    /\ chanCloses <= 1
    /\ bodyCloses <= 1
    /\ (chanCloses > 0 \/ bodyCloses > 0) => ReadFailed
    /\ rpc = "done" => (ReadFailed /\ chanCloses = 1 /\ bodyCloses = 1)

C4_Witness ==
    /\ rpc = "done"
    /\ Len(received) = 2
    /\ chanCloses = 1
    /\ bodyCloses = 1

\* C5: the channel buffers nothing; the events decoded from the lines read so
\* far are the events received followed by the at most one event readStream is
\* blocked sending, and readStream is at a read only with none undelivered.
C5_Backpressure ==
    /\ chanBuf = <<>>
    /\ Len(pending) <= 1
    /\ (rpc = "send") <=> (pending # <<>>)
    /\ ExpectedEvents(Consumed) = received \o pending

C5_Witness ==
    /\ rpc = "send"
    /\ pending = <<[seq |-> "1", id |-> "a"]>>
    /\ received = <<>>
    /\ Unread = <<"Ev2", "NL">>
    /\ srvEnd = "eof"

\* C6: when the consumer sees the channel closed it has received the event of
\* every newline-terminated line of the body that decodes with a non-empty seq.
C6_ClosedAfterAllDelivered == sawClosed => received = ExpectedEvents(body)

C6_Witness == sawClosed /\ Len(received) = 2

\* C7: reading a line that fails JSON decoding delivers nothing, returns no
\* error, closes nothing and leaves readStream at the next read; the channel
\* is closed only after a read has failed, and by then every deliverable line,
\* also those after a failing one, has been delivered.
C7_DecodeFailureSkipped ==
    /\ [][(ReadsLine /\ TrimSpace(LineRead) # <<>> /\ Unmarshal(TrimSpace(LineRead)).err # "nil")
            => (/\ rpc' = "read"
                /\ pending' = <<>>
                /\ UNCHANGED <<received, chanBuf, chanCloses, bodyCloses, retErr, sawClosed>>)]_vars
    /\ [](chanCloses > 0 => (ReadFailed /\ received = ExpectedEvents(body)))

C7_Witness ==
    /\ body = <<"Bad", "NL", "Ev1", "NL">>
    /\ received = <<[seq |-> "1", id |-> "a"]>>
    /\ chanCloses = 0
    /\ srvEnd = "open"

\* C8: no event with an empty seq is ever sent or received, and reading a line
\* that decodes with an empty seq leaves readStream at the next read with
\* nothing to send.
C8_NoEmptySeq ==
    /\ [](\A i \in 1..Len(received) : received[i].seq # "")
    /\ [](\A i \in 1..Len(pending) : pending[i].seq # "")
    /\ [][(ReadsLine /\ Unmarshal(LineRead).err = "nil" /\ Unmarshal(LineRead).result.seq = "")
            => (rpc' = "read" /\ pending' = <<>> /\ UNCHANGED <<received, chanBuf, chanCloses>>)]_vars

C8_Witness ==
    /\ body = <<"NoSeq", "NL", "Ev1", "NL">>
    /\ received = <<[seq |-> "1", id |-> "a"]>>

\* C9: reading a line that is empty after the trim delivers nothing and leaves
\* readStream at the next read; a body of such lines only yields no event,
\* and the channel is closed once readStream has returned.
C9_BlankLineSkipped ==
    /\ [][(ReadsLine /\ TrimSpace(LineRead) = <<>>)
            => (rpc' = "read" /\ pending' = <<>> /\ UNCHANGED <<received, chanBuf, chanCloses>>)]_vars
    /\ []((\A i \in 1..Len(body) : body[i] \in Space) => (received = <<>> /\ pending = <<>>))
    /\ [](rpc = "done" => chanCloses = 1)

C9_Witness ==
    /\ body = <<"NL", "NL", "NL">>
    /\ srvEnd = "eof"
    /\ sawClosed
    /\ received = <<>>

\* C10: once the stream has ended or failed, with the consumer receiving,
\* readStream returns with the channel closed and the body released.
C10_EventuallyClosed ==
    (srvEnd \in {"eof", "err"}) ~> (rpc = "done" /\ chanCloses = 1 /\ bodyCloses = 1)

C10_Witness ==
    /\ srvEnd = "err"
    /\ rpc = "done"
    /\ received = <<[seq |-> "1", id |-> "a"], [seq |-> "2", id |-> "b"]>>
    /\ bodyCloses = 1

\* C11: the consumer's view does not depend on why the stream ended.  For each
\* of the two causes, a read that fails ends the loop with nothing sent, the
\* events received when the channel is seen closed are those of the lines
\* alone, no error is returned with the channel and nothing is received after
\* the closure; so two runs over the same lines, one ended by end-of-stream
\* and one by an error, show the consumer the same events and then the closure.
C11_EndCauseInvisible ==
    /\ [](\A k \in {"eof", "err"} :
            (srvEnd = k /\ sawClosed) =>
                (received = ExpectedEvents(body) /\ retVal = "chan" /\ retErr = "nil"))
    /\ [][\A k \in {"eof", "err"} :
            (srvEnd = k /\ rpc = "read" /\ IndexNL(Unread, 1) = 0 /\ readerVars' # readerVars)
                => (/\ rpc' = "exit"
                    /\ rpos' = Len(body)
                    /\ UNCHANGED <<received, pending, chanBuf, retVal, retErr>>)]_vars
    /\ [][sawClosed => UNCHANGED <<received, sawClosed, retVal, retErr>>]_vars

C11_Witness ==
    /\ srvEnd = "err"
    /\ sawClosed
    /\ body = <<"Ev1", "NL", "Ev2">>
    /\ received = <<[seq |-> "1", id |-> "a"]>>

\* C12: every request of Stream carries feed=continuous, whatever feed the
\* caller supplied.
C12_StreamFeedContinuous ==
    op = "Stream" => \A i \in 1..Len(reqs) : reqs[i] = "continuous"

C12_Witness ==
    /\ op = "Stream"
    /\ callerFeed = "unset"
    /\ reqs = <<"continuous">>

\* C13: no request of Poll carries feed=continuous: the feed is left out when
\* the caller set continuous and is the caller's otherwise.
C13_PollFeedNotContinuous ==
    op = "Poll" =>
        \A i \in 1..Len(reqs) :
            /\ reqs[i] # "continuous"
            /\ callerFeed = "continuous" => reqs[i] = "unset"
            /\ callerFeed # "continuous" => reqs[i] = callerFeed

C13_Witness ==
    /\ op = "Poll"
    /\ callerFeed = "continuous"
    /\ reqs = <<"unset">>

\* C14: when query.Values fails, Stream and Poll return nil and the error,
\* with no request made, no channel made and no reader started.
C14_EncodeFailure ==
    encErr = "err" =>
        /\ cpc = "returned"
        /\ retVal = "nil"
        /\ retErr = "err"
        /\ reqs = <<>>
        /\ res = "none"
        /\ ~chanMade
        /\ rpc = "none"

C14_Witness ==
    /\ op = "Stream"
    /\ encErr = "err"
    /\ retErr = "err"
    /\ reqs = <<>>

\* C15: once the channel is closed, no step reads the body, sends or delivers
\* an event, closes the channel again or takes readStream back into its loop.
C15_ClosedIsTerminal ==
    [][chanCloses > 0 =>
        /\ UNCHANGED <<rpos, received, pending, chanBuf, chanCloses>>
        /\ rpc \in {"exit", "done"}
        /\ rpc' \in {"exit", "done"}]_vars

C15_Witness ==
    /\ rpc = "done"
    /\ chanCloses = 1
    /\ sawClosed
    /\ srvEnd = "eof"
    /\ Len(received) = 1

\* C16 as stated: a call to Stream issues exactly one request.
C16_ExactlyOneRequest == op = "Stream" => Len(reqs) = 1

\* C16 amended: a call to Stream issues one request, or none when encoding
\* the parameters failed, and no step after the call issues another one,
\* whatever becomes of the stream.
C16_OneRequestUnlessEncodeFails ==
    /\ [](op = "Stream" => Len(reqs) = (IF encErr = "err" THEN 0 ELSE 1))
    /\ [][op = "Stream" => reqs' = reqs]_vars

C16_Witness ==
    /\ op = "Stream"
    /\ srvEnd = "err"
    /\ rpc = "done"
    /\ Len(reqs) = 1

\* C17: readStream leaves its loop only in a step that is a read of the body
\* failing (the stream has ended and holds no further '\n'), and the channel
\* and the body are closed only by readStream after it has left the loop:
\* never by a line that is blank, fails to decode or has an empty seq, nor by
\* a step of the consumer.
C17_LeavesOpenOnlyOnReadFailure ==
    [][/\ (rpc \notin {"exit", "done"} /\ rpc' \in {"exit", "done"})
            => (rpc = "read" /\ srvEnd \in {"eof", "err"} /\ IndexNL(Unread, 1) = 0)
       /\ (chanCloses' # chanCloses \/ bodyCloses' # bodyCloses)
            => (rpc = "exit" /\ UNCHANGED <<received, sawClosed>>)]_vars

C17_Witness ==
    /\ body = <<"Bad", "NL", "NoSeq", "NL">>
    /\ srvEnd = "eof"
    /\ rpc = "done"

\* C18: while an event decoded from the lines read has not been received,
\* readStream is blocked at the send with nothing closed, and no step other
\* than a receive of that event moves it: without the consumer it reads no
\* more, closes nothing and never returns, also after the stream has ended.
C18_BlockedWithoutConsumer ==
    /\ [](Len(ExpectedEvents(Consumed)) > Len(received)
            => (rpc = "send" /\ chanCloses = 0 /\ bodyCloses = 0))
    /\ [][(rpc = "send" /\ received' = received)
            => UNCHANGED <<rpc, rpos, pending, defers, chanCloses, bodyCloses, sawClosed>>]_vars

C18_Witness ==
    /\ rpc = "send"
    /\ srvEnd = "err"
    /\ Unread = <<>>
    /\ received = <<>>
    /\ bodyCloses = 0
    /\ chanCloses = 0

RECURSIVE AfterLastNL(_)
\* The tokens after the last '\n' of b: the final line, not terminated.
AfterLastNL(b) ==
    LET n == IndexNL(b, 1)
    IN  IF n = 0 THEN b ELSE AfterLastNL(SubSeq(b, n + 1, Len(b)))

\* C19: the read that returns a final line without its '\n' ends the loop
\* with nothing sent, so that line is never delivered, also when it is a
\* well-formed event: once a read has failed the events received are those
\* of the terminated lines only.
C19_UnterminatedLineDropped ==
    /\ [][(rpc = "read" /\ IndexNL(Unread, 1) = 0 /\ rpos' # rpos)
            => (rpc' = "exit" /\ pending' = <<>> /\ UNCHANGED <<received, chanBuf>>)]_vars
    /\ []((ReadFailed /\ Deliverable(AfterLastNL(body)))
            => (/\ received = ExpectedEvents(SubSeq(body, 1, Len(body) - Len(AfterLastNL(body))))
                /\ pending = <<>>))

C19_Witness ==
    /\ body = <<"Ev1", "NL", "Ev2">>
    /\ srvEnd = "eof"
    /\ rpc = "done"
    /\ rpos = 3
    /\ received = <<[seq |-> "1", id |-> "a"]>>

\* C20: no step changes the feed the caller holds, although the request of
\* Stream carries continuous and the request of Poll leaves continuous out.
C20_CallerParamsUnchanged ==
    /\ [][callerFeed' = callerFeed]_vars
    /\ []((op = "Stream" /\ reqs # <<>>) => reqs[1] = "continuous")
    /\ []((op = "Poll" /\ reqs # <<>>) => reqs[1] # "continuous")

C20_Witness ==
    /\ op = "Stream"
    /\ cpc = "returned"
    /\ callerFeed = "longpoll"
    /\ reqs = <<"continuous">>

\* C21: when the request of Poll fails, Poll returns with that failure as a
\* non-nil error and has not touched the body of a response.
C21_PollRequestFailure ==
    (op = "Poll" /\ reqErr = "err") =>
        (cpc = "returned" /\ retErr = "err" /\ ~pollClosed)

\* C22: every step that reads from the body of the Stream response or closes
\* it is a step of readStream alone, on the response Stream handed to it:
\* in such a step neither the caller nor the consumer acts.
C22_OnlyReaderTouchesBody ==
    [][(rpos' # rpos \/ bodyCloses' # bodyCloses) =>
        /\ rpc \in {"read", "exit"}
        /\ op = "Stream"
        /\ res = "ok"
        /\ UNCHANGED <<callVars, consumerVars>>]_vars

C22_Witness ==
    /\ body = <<"SP", "NL", "Ev1", "NL">>
    /\ rpos = 4
    /\ rpc = "done"
    /\ bodyCloses = 1
    /\ cpc = "returned"
    /\ sawClosed

====
